---- MODULE Spec2Model ----
(***************************************************************************)
(* Model of functions/index.js of piponic_cloud: the Pub/Sub handler       *)
(* iotStoreDeviceUpdates, the threshold evaluator detectSystemErrors and   *)
(* the notification sender sendFCMNotification, together with the          *)
(* Firestore / real-time-database documents they read and write.           *)
(*                                                                         *)
(* Documents and readings are functions from field names to values.        *)
(* Temperatures and pH values are whole units; the three voltages          *)
(* (battery_voltage, leak, internal_leak) are in tenths of a volt, so the  *)
(* source's 4.0 V and 0.6 V are 40 and 6.                                  *)
(***************************************************************************)
EXTENDS Integers, Sequences, FiniteSets, TLC

VARIABLES
    cfgStore,      \* Firestore collection Config:  device -> [exists, data]
    errStore,      \* Firestore collection Error:   device -> [exists, data]
    statusStore,   \* Firestore collection Status:  device -> [exists, data]
    historyStore,  \* Firestore collection History: device -> sequence of entries
    rtdb,          \* real-time database:           device -> [exists, data]
    fcm,           \* messages handed to admin.messaging().sendToTopic, in order
    pending,       \* store writes issued and not yet applied (in flight)
    task,          \* invocation slot -> state of that invocation of the handler
    clock,         \* server clock read by admin.firestore.Timestamp.now()
    ingested,      \* number of messages received so far
    edits,         \* number of configuration edits made by users so far
    hist,          \* history (ghost) variable: device -> condition -> record
    relay,         \* invocations of iotDeviceConfigUpdate so far, in order
    defaults       \* the objects DEFAULT_CONFIG_DOC and DEFAULT_ERROR_DOC of the
                   \* process, which every invocation shares

vars == <<cfgStore, errStore, statusStore, historyStore, rtdb, fcm, pending,
          task, clock, ingested, edits, hist, relay, defaults>>

----------------------------------------------------------------------------
(* Bounds of the model *)

\* Messages received in a run of the sequential specification
MaxIngest == 3
\* Configuration edits by users in a run
MaxEdits == 1
\* Sensor fields in one reading of the single-evaluation specification
MaxFields == 2

----------------------------------------------------------------------------
(* Program constants *)

GCLOUD_PROJECT == "piponics"
REGISTRY_ID == "RaspberryPis"
IOT_REGION == "us-central1"
STATUS_COLLECTION == "Status"
HISTORY_COLLECTION == "History"
CONFIG_COLLECTION == "Config"
ERROR_COLLECTION == "Error"
RTDB == "rtdb"
\* database.ref() with no path: the root of the real-time database
ROOT == "/"
\* message.attributes.deviceId of a message without that attribute
UNDEFINED == "undefined"

GENERIC_WARN_MSG == "Please check your system to avoid damage..."
TEMP_HIGH_MSG == "TEMPERATURE TOO HIGH..."
TEMP_LOW_MSG == "TEMPERATURE TOO LOW..."
PH_HIGH_MSG == "PH TOO HIGH..."
PH_LOW_MSG == "PH TOO LOW..."
BATTERY_LOW_MSG == "BATTERY TOO LOW.."
INTERNAL_LEAK_MSG == "INTERNAL LEAK DETECTED..."
LEAK_MSG == "LEAK DETECTED..."

DEFAULT_CONFIG_DOC ==
    [k \in {"max_ph", "min_ph", "max_temperature", "min_temperature",
            "peristaltic_pump_on", "target_ph", "update_interval_minutes"} |->
        CASE k = "max_ph" -> 10
          [] k = "min_ph" -> 5
          [] k = "max_temperature" -> 25
          [] k = "min_temperature" -> 15
          [] k = "peristaltic_pump_on" -> FALSE
          [] k = "target_ph" -> 7
          [] k = "update_interval_minutes" -> 30]

\* The order in which the object literal lists its keys (for ... in follows it)
DEFAULT_CONFIG_ORDER ==
    <<"max_ph", "min_ph", "max_temperature", "min_temperature",
      "peristaltic_pump_on", "target_ph", "update_interval_minutes">>

ErrorFlags ==
    {"PH_HIGH", "PH_LOW", "TEMP_HIGH", "TEMP_LOW", "WATER_LEVEL_LOW",
     "BATTERY_LOW", "LEAK_DETECTED", "INTERNAL_LEAK_DETECTED"}

DEFAULT_ERROR_DOC == [f \in ErrorFlags |-> FALSE]

\* tenths of a volt
MIN_BATTERY_VOLTAGE == 40
MAX_LEAK_VOLTAGE == 6

----------------------------------------------------------------------------
(* Records as JavaScript objects *)

EmptyDoc == [k \in {} |-> FALSE]

\* "k" in obj / hasOwnProperty
Has(obj, k) == k \in DOMAIN obj

\* obj.k = v
SetField(obj, k, v) == [x \in DOMAIN obj \cup {k} |-> IF x = k THEN v ELSE obj[x]]

\* the truth value of errorData.FLAG: an absent flag is undefined, hence falsy
Truthy(errorData, flag) == Has(errorData, flag) /\ errorData[flag] = TRUE

NoDocument == [exists |-> FALSE, data |-> EmptyDoc]
Document(data) == [exists |-> TRUE, data |-> data]

----------------------------------------------------------------------------
(* sendFCMNotification and detectSystemErrors *)

sendFCMNotification(topic, title, body) ==
    [topic |-> topic,
     notification |-> [title |-> title, body |-> body, sound |-> "default"],
     options |-> [priority |-> "high", timeToLive |-> 60 * 60 * 24]]

\* The state threaded through one run of detectSystemErrors: the errorData
\* object (mutated in place by the code), the messages sent so far, and, as a
\* ghost field, the flags on whose behalf sendFCMNotification was called.
EvalStart(errorData) == [errorData |-> errorData, fcm |-> <<>>, notified |-> {}]

\* Faulty variant: notifies on every violation, set flag or not
CheckThresholdNoGuard(st, deviceId, violated, flag, title) ==
    IF violated
    THEN [errorData |-> SetField(st.errorData, flag, TRUE),
          fcm |-> Append(st.fcm, sendFCMNotification(deviceId, title, GENERIC_WARN_MSG)),
          notified |-> st.notified \cup {flag}]
    ELSE [st EXCEPT !.errorData = SetField(st.errorData, flag, FALSE)]

\* The shape shared by the seven checks: on a violation notify unless the flag
\* is already set and set the flag, otherwise clear the flag.
CheckThreshold(st, deviceId, violated, flag, title) ==
    IF violated
    THEN [errorData |-> SetField(st.errorData, flag, TRUE),
          fcm |-> IF ~Truthy(st.errorData, flag)
                  THEN Append(st.fcm, sendFCMNotification(deviceId, title, GENERIC_WARN_MSG))
                  ELSE st.fcm,
          notified |-> IF ~Truthy(st.errorData, flag)
                       THEN st.notified \cup {flag}
                       ELSE st.notified]
    ELSE [st EXCEPT !.errorData = SetField(st.errorData, flag, FALSE)]

\* Faulty variant: a temperature below the minimum also clears TEMP_HIGH
CaseMinTemperatureClearsHigh(st, deviceId, deviceData, configData) ==
    IF Has(deviceData, "temperature")
    THEN LET low == deviceData["temperature"] < configData["min_temperature"]
             s == CheckThreshold(st, deviceId, low,
                      "TEMP_LOW", deviceId \o ": " \o TEMP_LOW_MSG)
         IN  IF low
             THEN [s EXCEPT !.errorData = SetField(s.errorData, "TEMP_HIGH", FALSE)]
             ELSE s
    ELSE st

CaseMinTemperature(st, deviceId, deviceData, configData) ==
    IF Has(deviceData, "temperature")
    THEN CheckThreshold(st, deviceId,
             deviceData["temperature"] < configData["min_temperature"],
             "TEMP_LOW", deviceId \o ": " \o TEMP_LOW_MSG)
    ELSE st

\* Faulty variant: a temperature equal to max_temperature counts as too high
CaseMaxTemperatureNonStrict(st, deviceId, deviceData, configData) ==
    IF Has(deviceData, "temperature")
    THEN CheckThreshold(st, deviceId,
             deviceData["temperature"] >= configData["max_temperature"],
             "TEMP_HIGH", deviceId \o ": " \o TEMP_HIGH_MSG)
    ELSE st

\* Faulty variant: a reading without temperature clears TEMP_HIGH
CaseMaxTemperatureClearsOnMissing(st, deviceId, deviceData, configData) ==
    IF Has(deviceData, "temperature")
    THEN CheckThreshold(st, deviceId,
             deviceData["temperature"] > configData["max_temperature"],
             "TEMP_HIGH", deviceId \o ": " \o TEMP_HIGH_MSG)
    ELSE [st EXCEPT !.errorData = SetField(st.errorData, "TEMP_HIGH", FALSE)]

CaseMaxTemperature(st, deviceId, deviceData, configData) ==
    IF Has(deviceData, "temperature")
    THEN CheckThreshold(st, deviceId,
             deviceData["temperature"] > configData["max_temperature"],
             "TEMP_HIGH", deviceId \o ": " \o TEMP_HIGH_MSG)
    ELSE st

CaseMaxPh(st, deviceId, deviceData, configData) ==
    IF Has(deviceData, "pH")
    THEN CheckThreshold(st, deviceId,
             deviceData["pH"] > configData["max_ph"],
             "PH_HIGH", deviceId \o ": " \o PH_HIGH_MSG)
    ELSE st

\* Faulty variant: a pH that is not too low leaves PH_LOW as it was
CaseMinPhNeverCleared(st, deviceId, deviceData, configData) ==
    IF Has(deviceData, "pH") /\ deviceData["pH"] < configData["min_ph"]
    THEN CheckThreshold(st, deviceId, TRUE,
             "PH_LOW", deviceId \o ": " \o PH_LOW_MSG)
    ELSE st

CaseMinPh(st, deviceId, deviceData, configData) ==
    IF Has(deviceData, "pH")
    THEN CheckThreshold(st, deviceId,
             deviceData["pH"] < configData["min_ph"],
             "PH_LOW", deviceId \o ": " \o PH_LOW_MSG)
    ELSE st

\* switch (config)
ConfigCase(st, config, deviceId, deviceData, configData) ==
    CASE config = "min_temperature" -> CaseMinTemperature(st, deviceId, deviceData, configData)
      [] config = "max_temperature" -> CaseMaxTemperature(st, deviceId, deviceData, configData)
      [] config = "max_ph" -> CaseMaxPh(st, deviceId, deviceData, configData)
      [] config = "min_ph" -> CaseMinPh(st, deviceId, deviceData, configData)
      [] OTHER -> st

\* for (const config in configData), keys enumerated in the order `keys`
RECURSIVE ConfigLoop(_, _, _, _, _)
ConfigLoop(st, keys, deviceId, deviceData, configData) ==
    IF keys = <<>>
    THEN st
    ELSE ConfigLoop(
             IF ~Has(configData, Head(keys))
             THEN st
             ELSE ConfigCase(st, Head(keys), deviceId, deviceData, configData),
             Tail(keys), deviceId, deviceData, configData)

\* Faulty variant: a battery at exactly the minimum counts as low
BatteryCheckNonStrict(st, deviceId, deviceData) ==
    IF Has(deviceData, "battery_voltage")
    THEN CheckThreshold(st, deviceId,
             deviceData["battery_voltage"] <= MIN_BATTERY_VOLTAGE,
             "BATTERY_LOW", deviceId \o ": " \o BATTERY_LOW_MSG)
    ELSE st

BatteryCheck(st, deviceId, deviceData) ==
    IF Has(deviceData, "battery_voltage")
    THEN CheckThreshold(st, deviceId,
             deviceData["battery_voltage"] < MIN_BATTERY_VOLTAGE,
             "BATTERY_LOW", deviceId \o ": " \o BATTERY_LOW_MSG)
    ELSE st

InternalLeakCheck(st, deviceId, deviceData) ==
    IF Has(deviceData, "internal_leak")
    THEN CheckThreshold(st, deviceId,
             deviceData["internal_leak"] > MAX_LEAK_VOLTAGE,
             "INTERNAL_LEAK_DETECTED", deviceId \o " " \o INTERNAL_LEAK_MSG)
    ELSE st

\* Faulty variant: the leak check also judges the water level
LeakCheckWaterLevel(st, deviceId, deviceData) ==
    LET s == IF Has(deviceData, "leak")
             THEN CheckThreshold(st, deviceId,
                      deviceData["leak"] > MAX_LEAK_VOLTAGE,
                      "LEAK_DETECTED", deviceId \o ": " \o LEAK_MSG)
             ELSE st
    IN  IF Has(deviceData, "water_level")
        THEN CheckThreshold(s, deviceId, deviceData["water_level"] < 1,
                 "WATER_LEVEL_LOW", deviceId \o ": Water level low")
        ELSE s

LeakCheck(st, deviceId, deviceData) ==
    IF Has(deviceData, "leak")
    THEN CheckThreshold(st, deviceId,
             deviceData["leak"] > MAX_LEAK_VOLTAGE,
             "LEAK_DETECTED", deviceId \o ": " \o LEAK_MSG)
    ELSE st

\* Faulty variant: every write goes to the document of one device
WriteShared(t, coll, doc, data) == [task |-> t, coll |-> coll, doc |-> "d1", data |-> data]

\* A store write as issued by ref.set(data) / ref.add(data)
Write(t, coll, doc, data) == [task |-> t, coll |-> coll, doc |-> doc, data |-> data]

\* Faulty variant: the document written is the one before the fixed checks
detectSystemErrorsEarlyWrite(t, deviceId, deviceData, configData, errorData, keys) ==
    LET s1 == ConfigLoop(EvalStart(errorData), keys, deviceId, deviceData, configData)
        s2 == BatteryCheck(s1, deviceId, deviceData)
        s3 == InternalLeakCheck(s2, deviceId, deviceData)
        s4 == LeakCheck(s3, deviceId, deviceData)
    IN  [errorData |-> s4.errorData,
         fcm |-> s4.fcm,
         notified |-> s4.notified,
         writes |-> <<Write(t, ERROR_COLLECTION, deviceId, s1.errorData)>>,
         calls |-> [i \in 1..Len(s4.fcm) |-> "sendToTopic"] \o <<"set">>]

\* Faulty variant: the document written holds only the flags that changed
detectSystemErrorsChangedOnly(t, deviceId, deviceData, configData, errorData, keys) ==
    LET s1 == ConfigLoop(EvalStart(errorData), keys, deviceId, deviceData, configData)
        s2 == BatteryCheck(s1, deviceId, deviceData)
        s3 == InternalLeakCheck(s2, deviceId, deviceData)
        s4 == LeakCheck(s3, deviceId, deviceData)
        changed == {f \in DOMAIN s4.errorData :
                       ~Has(errorData, f) \/ errorData[f] # s4.errorData[f]}
    IN  [errorData |-> s4.errorData,
         fcm |-> s4.fcm,
         notified |-> s4.notified,
         writes |-> <<Write(t, ERROR_COLLECTION, deviceId,
                            [f \in changed |-> s4.errorData[f]])>>,
         calls |-> [i \in 1..Len(s4.fcm) |-> "sendToTopic"] \o <<"set">>]

\* Faulty variant: the document is written only when a flag changed
detectSystemErrorsWriteOnChange(t, deviceId, deviceData, configData, errorData, keys) ==
    LET s1 == ConfigLoop(EvalStart(errorData), keys, deviceId, deviceData, configData)
        s2 == BatteryCheck(s1, deviceId, deviceData)
        s3 == InternalLeakCheck(s2, deviceId, deviceData)
        s4 == LeakCheck(s3, deviceId, deviceData)
    IN  [errorData |-> s4.errorData,
         fcm |-> s4.fcm,
         notified |-> s4.notified,
         writes |-> IF s4.errorData = errorData
                    THEN <<>>
                    ELSE <<Write(t, ERROR_COLLECTION, deviceId, s4.errorData)>>,
         calls |-> [i \in 1..Len(s4.fcm) |-> "sendToTopic"]
                       \o (IF s4.errorData = errorData THEN <<>> ELSE <<"set">>)]

\* The run of detectSystemErrors: the final errorData object, the messages
\* sent, the Error-collection writes it issues (t is the invocation), and
\* the calls it makes to the messaging service and the store, in program
\* order: the sends of the checks, then the set() of line 495.
detectSystemErrors(t, deviceId, deviceData, configData, errorData, keys) ==
    LET s1 == ConfigLoop(EvalStart(errorData), keys, deviceId, deviceData, configData)
        s2 == BatteryCheck(s1, deviceId, deviceData)
        s3 == InternalLeakCheck(s2, deviceId, deviceData)
        s4 == LeakCheck(s3, deviceId, deviceData)
    IN  [errorData |-> s4.errorData,
         fcm |-> s4.fcm,
         notified |-> s4.notified,
         writes |-> <<Write(t, ERROR_COLLECTION, deviceId, s4.errorData)>>,
         calls |-> [i \in 1..Len(s4.fcm) |-> "sendToTopic"] \o <<"set">>]

\* Faulty variant: the evaluator works on a copy of its argument
ArgumentAfterCallCopied(errorData, out) == errorData

\* detectSystemErrors returns nothing and assigns to the fields of the object
\* it was given (lines 379, 381, ...): after the call the caller's piErrorData,
\* which is that object, holds what the run left in it
ArgumentAfterCall(errorData, out) == out.errorData

----------------------------------------------------------------------------
(* Inputs *)

DeviceIds == {"d1", "d2"}
TaskIds == {1, 2}

Sensors == {"temperature", "pH", "battery_voltage", "leak", "internal_leak", "water_level"}

\* Values a device may report for a sensor: below, at and above the thresholds
SensorValues(s) ==
    CASE s = "temperature" -> {14, 25, 26}
      [] s = "pH" -> {4, 10, 11}
      [] s = "battery_voltage" -> {39, 40}
      [] s = "leak" -> {6, 7}
      [] s = "internal_leak" -> {6, 7}
      [] s = "water_level" -> {0}

\* message.json: the sparse readings with at most n sensor fields
Readings(n) ==
    UNION { { r \in [S -> UNION {SensorValues(s) : s \in S}] :
                \A s \in S : r[s] \in SensorValues(s) } :
            S \in {X \in SUBSET Sensors : Cardinality(X) <= n} }

EvalReadings == Readings(MaxFields)

\* The readings of the sequential runs
SeqReadings ==
    { [temperature |-> 26], [temperature |-> 25],
      [pH |-> 11, battery_voltage |-> 39], [battery_voltage |-> 40] }

\* Configuration documents a user may have written
WideConfig ==
    [DEFAULT_CONFIG_DOC EXCEPT !["min_temperature"] = 14, !["max_temperature"] = 26,
                               !["min_ph"] = 4, !["max_ph"] = 11]

NoThresholdConfig ==
    [k \in {"peristaltic_pump_on", "target_ph", "update_interval_minutes"} |->
        DEFAULT_CONFIG_DOC[k]]

PartialConfig ==
    [k \in DOMAIN DEFAULT_CONFIG_DOC \ {"max_temperature", "min_ph"} |->
        DEFAULT_CONFIG_DOC[k]]

UserConfigs == {DEFAULT_CONFIG_DOC, WideConfig, NoThresholdConfig, PartialConfig}

\* Orders in which for ... in may enumerate the keys of a configuration
\* loaded from Firestore: as the default literal lists them, and reversed
Reverse(s) == [i \in 1..Len(s) |-> s[Len(s) + 1 - i]]
KeyOrders == {DEFAULT_CONFIG_ORDER, Reverse(DEFAULT_CONFIG_ORDER)}

\* Error documents an evaluation may load: every document the handler writes
\* has all eight flags; documents lacking flags come from outside the handler
LegacyFlags == {"PH_HIGH", "PH_LOW", "TEMP_HIGH", "TEMP_LOW", "WATER_LEVEL_LOW"}
EvalErrorDocs ==
    { [f \in ErrorFlags |-> f \in T] :
        T \in {{}, ErrorFlags, {"TEMP_HIGH"}, {"PH_LOW", "BATTERY_LOW"}} }
    \cup { [f \in LegacyFlags |-> b] : b \in BOOLEAN }
    \cup { EmptyDoc }

----------------------------------------------------------------------------
(* History kept for the properties: what the readings ingested so far said *)

\* The seven conditions detectSystemErrors judges
Conditions == ErrorFlags \ {"WATER_LEVEL_LOW"}

SensorOf(c) ==
    CASE c \in {"TEMP_HIGH", "TEMP_LOW"} -> "temperature"
      [] c \in {"PH_HIGH", "PH_LOW"} -> "pH"
      [] c = "BATTERY_LOW" -> "battery_voltage"
      [] c = "LEAK_DETECTED" -> "leak"
      [] c = "INTERNAL_LEAK_DETECTED" -> "internal_leak"

\* The configuration key holding the threshold of c ("" for a built-in one)
ThresholdKeyOf(c) ==
    CASE c = "TEMP_HIGH" -> "max_temperature"
      [] c = "TEMP_LOW" -> "min_temperature"
      [] c = "PH_HIGH" -> "max_ph"
      [] c = "PH_LOW" -> "min_ph"
      [] OTHER -> ""

\* The reading carries the sensor of c and the configuration has its threshold
Judged(c, deviceData, configData) ==
    /\ Has(deviceData, SensorOf(c))
    /\ ThresholdKeyOf(c) = "" \/ Has(configData, ThresholdKeyOf(c))

\* The reading is out of range for c (asked only when Judged)
Violates(c, deviceData, configData) ==
    CASE c = "TEMP_HIGH" -> deviceData["temperature"] > configData["max_temperature"]
      [] c = "TEMP_LOW" -> deviceData["temperature"] < configData["min_temperature"]
      [] c = "PH_HIGH" -> deviceData["pH"] > configData["max_ph"]
      [] c = "PH_LOW" -> deviceData["pH"] < configData["min_ph"]
      [] c = "BATTERY_LOW" -> deviceData["battery_voltage"] < 40
      [] c = "LEAK_DETECTED" -> deviceData["leak"] > 6
      [] c = "INTERNAL_LEAK_DETECTED" -> deviceData["internal_leak"] > 6

Min(a, b) == IF a < b THEN a ELSE b

\* verdict: what the last reading judged for the condition said
\* armed:   a notification was sent and no in-range reading came since
\* dup:     a notification was sent while armed
\* streak:  consecutive out-of-range readings judged (counted up to 2)
\* streakNotifs: notifications sent during the streak (counted up to 2)
\* clean:   the streak began with the stored flag not set
\* overlap: a message for the device was received while an earlier
\*          invocation for it, or one of its writes, was still under way
HistStart ==
    [verdict |-> "none", armed |-> FALSE, dup |-> FALSE,
     streak |-> 0, streakNotifs |-> 0, clean |-> TRUE, overlap |-> FALSE]

\* The history of condition c after a reading was taken through the
\* error-state step: storedFlag is the flag in the store at that step,
\* notified the flags a notification was sent for
HistAfterReading(h, c, deviceData, configData, storedFlag, notified) ==
    LET judged == Judged(c, deviceData, configData)
        viol == judged /\ Violates(c, deviceData, configData)
        inrange == judged /\ ~viol
        n == IF c \in notified THEN 1 ELSE 0
    IN  [verdict |-> IF judged THEN (IF viol THEN "viol" ELSE "ok") ELSE h.verdict,
         armed |-> IF n = 1 THEN TRUE ELSE IF inrange THEN FALSE ELSE h.armed,
         dup |-> h.dup \/ (n = 1 /\ h.armed),
         streak |-> IF inrange THEN 0
                    ELSE IF viol THEN Min(h.streak + 1, 2) ELSE h.streak,
         streakNotifs |-> IF inrange THEN 0 ELSE Min(h.streakNotifs + n, 2),
         clean |-> IF inrange THEN TRUE
                   ELSE IF viol /\ h.streak = 0 THEN ~storedFlag ELSE h.clean,
         overlap |-> h.overlap]

\* A configuration edit starts the history of the streaks afresh
HistAfterEdit(h) ==
    [h EXCEPT !.armed = FALSE, !.streak = 0, !.streakNotifs = 0, !.clean = TRUE]

----------------------------------------------------------------------------
(* The handler iotStoreDeviceUpdates, one action per turn of the event loop. *)
(* The field steps of an invocation lists the calls it has made to the clock, *)
(* the stores and the messaging service, in program order.                   *)

IdleTask ==
    [pc |-> "idle", deviceId |-> "", deviceData |-> EmptyDoc,
     piConfigData |-> EmptyDoc, cfgDefault |-> FALSE,
     loaded |-> NoDocument, piErrorData |-> EmptyDoc,
     sent |-> <<>>, notified |-> {}, evaluated |-> FALSE,
     errWrites |-> <<>>, calls |-> <<>>, steps |-> <<>>,
     failed |-> {}, readFailed |-> FALSE,
     valid |-> TRUE, result |-> "pending",
     again |-> FALSE,
     before |-> [config |-> EmptyDoc, stored |-> NoDocument, evaluated |-> FALSE]]

\* Faulty variant: the reading is stored as received
TimestampedNever(r, now) == r

\* deviceData.timestamp = admin.firestore.Timestamp.now(), line 279
Timestamped(r, now) ==
    [k \in DOMAIN r \cup {"timestamp"} |-> IF k = "timestamp" THEN now ELSE r[k]]

\* History fields of an invocation (ghost): whether its message repeats the
\* reading of the invocation that held the slot before it, for the same
\* device, and what that invocation used and left behind
SameReading(previous, d, r) ==
    /\ previous.pc = "done"
    /\ previous.valid
    /\ ~previous.readFailed
    /\ previous.deviceId = d
    /\ DOMAIN previous.deviceData = DOMAIN r \cup {"timestamp"}
    /\ \A k \in DOMAIN r : previous.deviceData[k] = r[k]

Quiescent ==
    /\ pending = {}
    /\ \A t \in TaskIds : task[t].pc \in {"idle", "done"}

\* An invocation for device d, or one of its writes, is under way (ghost)
UnderWay(d) ==
    \E u \in TaskIds :
        /\ task[u].deviceId = d
        /\ task[u].pc \notin {"idle", "done"} \/ \E w \in pending : w.task = u

HistAfterReceive(h, d) == [h EXCEPT !.overlap = @ \/ UnderWay(d)]

\* onPublish, lines 271-297: timestamp the reading, issue the three telemetry
\* writes and the configuration read
Receive(t, d, r) ==
    /\ task[t].pc \in {"idle", "done"}
    /\ \A w \in pending : w.task # t
    /\ LET deviceData == Timestamped(r, clock + 1)
       IN  /\ task' = [task EXCEPT ![t] =
                         [IdleTask EXCEPT !.pc = "cfgGet", !.deviceId = d,
                                          !.deviceData = deviceData,
                                          !.steps = <<"Timestamp.now", "rtdb.set", "Status.set",
                                                      "History.add", "Config.get">>,
                                          !.again = SameReading(task[t], d, r),
                                          !.before = [config |-> task[t].piConfigData,
                                                      stored |-> errStore[d],
                                                      evaluated |-> task[t].evaluated]]]
           /\ pending' = pending \cup
                 { Write(t, RTDB, d, deviceData),
                   Write(t, STATUS_COLLECTION, d, deviceData),
                   Write(t, HISTORY_COLLECTION, d, deviceData) }
    /\ clock' = clock + 1
    /\ ingested' = ingested + 1
    /\ hist' = [hist EXCEPT ![d] = [c \in Conditions |-> HistAfterReceive(hist[d][c], d)]]
    /\ UNCHANGED <<relay, defaults, cfgStore, errStore, statusStore, historyStore, rtdb, fcm, edits>>

\* onPublish on a message without the deviceId attribute, lines 273-286:
\* nothing checks deviceId, so database.ref(undefined) is the root reference
\* and its set() is issued; firestore's doc(undefined) then throws, which ends
\* the invocation before any other call
ReceiveNoDeviceId(t, r) ==
    /\ task[t].pc \in {"idle", "done"}
    /\ \A w \in pending : w.task # t
    /\ LET deviceData == Timestamped(r, clock + 1)
       IN  /\ task' = [task EXCEPT ![t] =
                         [IdleTask EXCEPT !.pc = "done", !.deviceId = UNDEFINED,
                                          !.deviceData = deviceData,
                                          !.steps = <<"Timestamp.now", "rtdb.set">>,
                                          !.valid = FALSE, !.result = "failure"]]
           /\ pending' = pending \cup {Write(t, RTDB, ROOT, deviceData)}
    /\ clock' = clock + 1
    /\ ingested' = ingested + 1
    /\ UNCHANGED <<relay, defaults, cfgStore, errStore, statusStore, historyStore, rtdb, fcm, edits, hist>>

\* onPublish on a message whose data is not JSON, line 274: the getter
\* message.json throws, which ends the invocation before any call
ReceiveMalformed(t) ==
    /\ task[t].pc \in {"idle", "done"}
    /\ \A w \in pending : w.task # t
    /\ task' = [task EXCEPT ![t] =
                  [IdleTask EXCEPT !.pc = "done", !.valid = FALSE, !.result = "failure"]]
    /\ ingested' = ingested + 1
    /\ UNCHANGED <<relay, defaults, cfgStore, errStore, statusStore, historyStore, rtdb, fcm,
                   pending, clock, edits, hist>>

\* The callback of the configuration read, lines 297-314: take the stored
\* configuration or the default (issuing its write), then issue the error read.
\* The callback returns nothing, so the promise the handler returned resolves.
ConfigResolved(t) ==
    /\ task[t].pc = "cfgGet"
    /\ LET d == task[t].deviceId
           documentSnapshot == cfgStore[d]
       IN  IF ~documentSnapshot.exists
           THEN /\ task' = [task EXCEPT ![t].pc = "errGet",
                                        ![t].piConfigData = defaults.config,
                                        ![t].cfgDefault = TRUE,
                                        ![t].steps = @ \o <<"Config.set", "Error.get">>,
                                        ![t].result = "success"]
                /\ pending' = pending \cup {Write(t, CONFIG_COLLECTION, d, defaults.config)}
           ELSE /\ task' = [task EXCEPT ![t].pc = "errGet",
                                        ![t].piConfigData = documentSnapshot.data,
                                        ![t].steps = @ \o <<"Error.get">>,
                                        ![t].result = "success"]
                /\ pending' = pending
    /\ UNCHANGED <<relay, defaults, cfgStore, errStore, statusStore, historyStore, rtdb, fcm,
                   clock, ingested, edits, hist>>

\* Faulty variant: the evaluation starts from the default, not the loaded flags
LoadErrorDataDefault(documentSnapshot) == DEFAULT_ERROR_DOC

\* piErrorData = documentSnapshot.data()
LoadErrorData(documentSnapshot) == documentSnapshot.data

\* Faulty variant: the callback does not return after creating the default
\* document, so the evaluation runs on piErrorData, which is the shared object
DefaultErrorAfterCreateEvaluated(t, deviceId, deviceData, configData, defaultError) ==
    detectSystemErrors(t, deviceId, deviceData, configData, defaultError,
                       DEFAULT_CONFIG_ORDER).errorData

\* Lines 323-329: piErrorData is the object DEFAULT_ERROR_DOC itself, it is
\* handed to set() and the callback returns; nothing assigns to its fields.
\* The value of the shared object after the callback
DefaultErrorAfterCreate(t, deviceId, deviceData, configData, defaultError) ==
    defaultError

\* The callback of the error read, lines 314-337: create the default error
\* document and return, or run detectSystemErrors on the loaded document.
\* The configuration, the shared default included, is only read by the
\* evaluation (lines 356-433).
ErrorResolved(t) ==
    /\ task[t].pc = "errGet"
    /\ LET d == task[t].deviceId
           documentSnapshot == errStore[d]
           storedFlag(c) == documentSnapshot.exists /\ Truthy(documentSnapshot.data, c)
       IN  IF ~documentSnapshot.exists
           THEN /\ task' = [task EXCEPT ![t].pc = "done",
                                        ![t].loaded = documentSnapshot,
                                        ![t].piErrorData = defaults.error,
                                        ![t].errWrites = <<defaults.error>>,
                                        ![t].calls = <<"set">>,
                                        ![t].steps = @ \o <<"set">>]
                /\ pending' = pending \cup {Write(t, ERROR_COLLECTION, d, defaults.error)}
                /\ fcm' = fcm
                /\ defaults' = [defaults EXCEPT !.error =
                                   DefaultErrorAfterCreate(t, d, task[t].deviceData,
                                       task[t].piConfigData, @)]
                /\ hist' = [hist EXCEPT ![d] = [c \in Conditions |->
                               HistAfterReading(hist[d][c], c, task[t].deviceData,
                                   task[t].piConfigData, storedFlag(c), {})]]
           ELSE \E keys \in (IF task[t].cfgDefault THEN {DEFAULT_CONFIG_ORDER} ELSE KeyOrders) :
                LET piErrorData == LoadErrorData(documentSnapshot)
                    out == detectSystemErrors(t, d, task[t].deviceData,
                               task[t].piConfigData, piErrorData, keys)
                IN  /\ task' = [task EXCEPT ![t].pc = "done",
                                            ![t].loaded = documentSnapshot,
                                            ![t].piErrorData = ArgumentAfterCall(piErrorData, out),
                                            ![t].sent = out.fcm,
                                            ![t].notified = out.notified,
                                            ![t].evaluated = TRUE,
                                            ![t].calls = out.calls,
                                            ![t].steps = @ \o out.calls,
                                            ![t].errWrites = [i \in 1..Len(out.writes) |-> out.writes[i].data]]
                    /\ pending' = pending \cup {out.writes[i] : i \in 1..Len(out.writes)}
                    /\ fcm' = fcm \o out.fcm
                    /\ defaults' = defaults
                    /\ hist' = [hist EXCEPT ![d] = [c \in Conditions |->
                                   HistAfterReading(hist[d][c], c, task[t].deviceData,
                                       task[t].piConfigData, storedFlag(c), out.notified)]]
    /\ UNCHANGED <<relay, cfgStore, errStore, statusStore, historyStore, rtdb,
                   clock, ingested, edits>>

\* Faulty variant: a history write replaces the history of the device
WriteLandsHistorySet(w) ==
    /\ w \in pending
    /\ pending' = pending \ {w}
    /\ rtdb' = IF w.coll # RTDB THEN rtdb
               ELSE IF w.doc = ROOT
                    THEN [n \in DOMAIN rtdb |->
                             IF n = ROOT THEN Document(w.data) ELSE NoDocument]
                    ELSE [rtdb EXCEPT ![w.doc] = Document(w.data)]
    /\ statusStore' = IF w.coll = STATUS_COLLECTION
                      THEN [statusStore EXCEPT ![w.doc] = Document(w.data)]
                      ELSE statusStore
    /\ historyStore' = IF w.coll = HISTORY_COLLECTION
                       THEN [historyStore EXCEPT ![w.doc] = <<w.data>>]
                       ELSE historyStore
    /\ cfgStore' = IF w.coll = CONFIG_COLLECTION
                   THEN [cfgStore EXCEPT ![w.doc] = Document(w.data)]
                   ELSE cfgStore
    /\ errStore' = IF w.coll = ERROR_COLLECTION
                   THEN [errStore EXCEPT ![w.doc] = Document(w.data)]
                   ELSE errStore
    /\ UNCHANGED <<relay, defaults, fcm, task, clock, ingested, edits, hist>>

\* A write in flight reaches the store
WriteLands(w) ==
    /\ w \in pending
    /\ pending' = pending \ {w}
    /\ rtdb' = IF w.coll # RTDB THEN rtdb
               ELSE IF w.doc = ROOT
                    THEN [n \in DOMAIN rtdb |->
                             IF n = ROOT THEN Document(w.data) ELSE NoDocument]
                    ELSE [rtdb EXCEPT ![w.doc] = Document(w.data)]
    /\ statusStore' = IF w.coll = STATUS_COLLECTION
                      THEN [statusStore EXCEPT ![w.doc] = Document(w.data)]
                      ELSE statusStore
    /\ historyStore' = IF w.coll = HISTORY_COLLECTION
                       THEN [historyStore EXCEPT ![w.doc] = Append(@, w.data)]
                       ELSE historyStore
    /\ cfgStore' = IF w.coll = CONFIG_COLLECTION
                   THEN [cfgStore EXCEPT ![w.doc] = Document(w.data)]
                   ELSE cfgStore
    /\ errStore' = IF w.coll = ERROR_COLLECTION
                   THEN [errStore EXCEPT ![w.doc] = Document(w.data)]
                   ELSE errStore
    /\ UNCHANGED <<relay, defaults, fcm, task, clock, ingested, edits, hist>>

\* A user rewrites the configuration document of a device
UserEdit(d, c) ==
    /\ edits < MaxEdits
    /\ cfgStore[d] # Document(c)
    /\ cfgStore' = [cfgStore EXCEPT ![d] = Document(c)]
    /\ edits' = edits + 1
    /\ hist' = [hist EXCEPT ![d] = [x \in Conditions |-> HistAfterEdit(hist[d][x])]]
    /\ UNCHANGED <<relay, defaults, errStore, statusStore, historyStore, rtdb, fcm, pending,
                   task, clock, ingested>>

----------------------------------------------------------------------------
(* The relay iotDeviceConfigUpdate and generateRequest *)

\* Text is a sequence of one-character strings. The characters of the field
\* names a configuration document has
KeyChars(k) ==
    CASE k = "max_ph" ->
             <<"m", "a", "x", "_", "p", "h">>
      [] k = "min_ph" ->
             <<"m", "i", "n", "_", "p", "h">>
      [] k = "max_temperature" ->
             <<"m", "a", "x", "_", "t", "e", "m", "p", "e", "r", "a", "t", "u", "r", "e">>
      [] k = "min_temperature" ->
             <<"m", "i", "n", "_", "t", "e", "m", "p", "e", "r", "a", "t", "u", "r", "e">>
      [] k = "peristaltic_pump_on" ->
             <<"p", "e", "r", "i", "s", "t", "a", "l", "t", "i", "c", "_", "p", "u", "m", "p", "_", "o", "n">>
      [] k = "target_ph" ->
             <<"t", "a", "r", "g", "e", "t", "_", "p", "h">>
      [] k = "update_interval_minutes" ->
             <<"u", "p", "d", "a", "t", "e", "_", "i", "n", "t", "e", "r", "v", "a", "l", "_", "m", "i", "n", "u", "t", "e", "s">>

Digits == <<"0", "1", "2", "3", "4", "5", "6", "7", "8", "9">>

\* The decimal numeral of a natural number
RECURSIVE NumberChars(_)
NumberChars(n) ==
    IF n < 10
    THEN <<Digits[n + 1]>>
    ELSE Append(NumberChars(n \div 10), Digits[(n % 10) + 1])

\* The fields of a configuration document that hold a boolean
BooleanFields == {"peristaltic_pump_on"}

ValueChars(k, v) ==
    IF k \in BooleanFields
    THEN IF v THEN <<"t", "r", "u", "e">> ELSE <<"f", "a", "l", "s", "e">>
    ELSE NumberChars(v)

RECURSIVE MemberChars(_, _)
MemberChars(obj, keys) ==
    IF keys = <<>>
    THEN <<>>
    ELSE LET k == Head(keys)
             member == <<"\"">> \o KeyChars(k) \o <<"\"", ":">> \o ValueChars(k, obj[k])
         IN  IF Tail(keys) = <<>>
             THEN member
             ELSE member \o <<",">> \o MemberChars(obj, Tail(keys))

\* JSON.stringify(configData) of an object whose own keys are enumerated in
\* the order `keys`
JSON_stringify(obj, keys) ==
    <<"{">> \o MemberChars(obj, SelectSeq(keys, LAMBDA k : Has(obj, k))) \o <<"}">>

CharCode(ch) ==
    CASE ch = "\"" -> 34
      [] ch = "," -> 44
      [] ch = "0" -> 48
      [] ch = "1" -> 49
      [] ch = "2" -> 50
      [] ch = "3" -> 51
      [] ch = "4" -> 52
      [] ch = "5" -> 53
      [] ch = "6" -> 54
      [] ch = "7" -> 55
      [] ch = "8" -> 56
      [] ch = "9" -> 57
      [] ch = ":" -> 58
      [] ch = "_" -> 95
      [] ch = "a" -> 97
      [] ch = "c" -> 99
      [] ch = "d" -> 100
      [] ch = "e" -> 101
      [] ch = "f" -> 102
      [] ch = "g" -> 103
      [] ch = "h" -> 104
      [] ch = "i" -> 105
      [] ch = "l" -> 108
      [] ch = "m" -> 109
      [] ch = "n" -> 110
      [] ch = "o" -> 111
      [] ch = "p" -> 112
      [] ch = "r" -> 114
      [] ch = "s" -> 115
      [] ch = "t" -> 116
      [] ch = "u" -> 117
      [] ch = "v" -> 118
      [] ch = "x" -> 120
      [] ch = "{" -> 123
      [] ch = "}" -> 125

\* Buffer.from(string): the bytes of the text (all of it is ASCII)
BufferFrom(chars) == [i \in 1..Len(chars) |-> CharCode(chars[i])]

Base64Alphabet ==
    <<"A", "B", "C", "D", "E", "F", "G", "H", "I", "J", "K", "L", "M", "N", "O", "P",
      "Q", "R", "S", "T", "U", "V", "W", "X", "Y", "Z", "a", "b", "c", "d", "e", "f",
      "g", "h", "i", "j", "k", "l", "m", "n", "o", "p", "q", "r", "s", "t", "u", "v",
      "w", "x", "y", "z", "0", "1", "2", "3", "4", "5", "6", "7", "8", "9", "+", "/">>

\* buffer.toString("base64"): three bytes make four characters, "=" pads
RECURSIVE ToBase64(_)
ToBase64(bytes) ==
    IF bytes = <<>>
    THEN <<>>
    ELSE LET n == Len(bytes)
             b1 == bytes[1]
             b2 == IF n >= 2 THEN bytes[2] ELSE 0
             b3 == IF n >= 3 THEN bytes[3] ELSE 0
             q == b1 * 65536 + b2 * 256 + b3
         IN  << Base64Alphabet[(q \div 262144) + 1],
                Base64Alphabet[((q \div 4096) % 64) + 1],
                IF n >= 2 THEN Base64Alphabet[((q \div 64) % 64) + 1] ELSE "=",
                IF n >= 3 THEN Base64Alphabet[(q % 64) + 1] ELSE "=" >>
             \o (IF n > 3 THEN ToBase64(SubSeq(bytes, 4, n)) ELSE <<>>)

\* client.devicePath(project, location, registry, device)
devicePath(project, location, registry, device) ==
    "projects/" \o project \o "/locations/" \o location
        \o "/registries/" \o registry \o "/devices/" \o device

generateRequest(deviceId, configData, keys) ==
    [name |-> devicePath(GCLOUD_PROJECT, IOT_REGION, REGISTRY_ID, deviceId),
     binaryData |-> ToBase64(BufferFrom(JSON_stringify(configData, keys)))]

\* Invocations of the relay in a run
MaxRelayed == 2

\* onWrite of Config/{deviceId}, lines 243-249, for a write that leaves the
\* document `after` (its keys enumerated in the order `keys`): one request is
\* built and handed to modifyCloudToDeviceConfig, whose promise is returned
iotDeviceConfigUpdate(deviceId, after, keys) ==
    /\ Len(relay) < MaxRelayed
    /\ relay' = Append(relay,
                    [deviceId |-> deviceId, after |-> Document(after),
                     requests |-> <<generateRequest(deviceId, after, keys)>>,
                     outcome |-> "pending"])
    /\ UNCHANGED <<defaults, cfgStore, errStore, statusStore, historyStore, rtdb, fcm,
                   pending, task, clock, ingested, edits, hist>>

\* onWrite of Config/{deviceId} for a deletion: change.after.data() is
\* undefined, so is JSON.stringify of it, and Buffer.from(undefined) throws
iotDeviceConfigUpdateDeleted(deviceId) ==
    /\ Len(relay) < MaxRelayed
    /\ relay' = Append(relay,
                    [deviceId |-> deviceId, after |-> NoDocument,
                     requests |-> <<>>, outcome |-> "failure"])
    /\ UNCHANGED <<defaults, cfgStore, errStore, statusStore, historyStore, rtdb, fcm,
                   pending, task, clock, ingested, edits, hist>>

\* The push request of invocation i is accepted
RequestAccepted(i) ==
    /\ relay[i].outcome = "pending"
    /\ relay' = [relay EXCEPT ![i].outcome = "success"]
    /\ UNCHANGED <<defaults, cfgStore, errStore, statusStore, historyStore, rtdb, fcm,
                   pending, task, clock, ingested, edits, hist>>

\* Faulty variant: a rejected request is issued again
RequestRejectedRetried(i) ==
    /\ relay[i].outcome = "pending"
    /\ relay' = [relay EXCEPT ![i].requests = @ \o @, ![i].outcome = "failure"]
    /\ UNCHANGED <<defaults, cfgStore, errStore, statusStore, historyStore, rtdb, fcm,
                   pending, task, clock, ingested, edits, hist>>

\* The push request of invocation i is rejected: the promise the handler
\* returned rejects, and nothing in the handler issues the request again
RequestRejected(i) ==
    /\ relay[i].outcome = "pending"
    /\ relay' = [relay EXCEPT ![i].outcome = "failure"]
    /\ UNCHANGED <<defaults, cfgStore, errStore, statusStore, historyStore, rtdb, fcm,
                   pending, task, clock, ingested, edits, hist>>

----------------------------------------------------------------------------
(* Specifications *)

EmptyStores ==
    /\ statusStore = [d \in DeviceIds |-> NoDocument]
    /\ historyStore = [d \in DeviceIds |-> <<>>]
    /\ rtdb = [n \in DeviceIds \cup {ROOT} |-> NoDocument]
    /\ fcm = <<>>
    /\ pending = {}
    /\ task = [t \in TaskIds |-> IdleTask]
    /\ clock = 0
    /\ ingested = 0
    /\ edits = 0
    /\ hist = [d \in DeviceIds |-> [c \in Conditions |-> HistStart]]
    /\ relay = <<>>
    /\ defaults = [config |-> DEFAULT_CONFIG_DOC, error |-> DEFAULT_ERROR_DOC]

\* A freshly deployed function: no device has been seen
Init ==
    /\ cfgStore = [d \in DeviceIds |-> NoDocument]
    /\ errStore = [d \in DeviceIds |-> NoDocument]
    /\ EmptyStores

\* Sequential runs for one device: a message is received only when the
\* previous invocation and all its writes are over, and users edit the
\* configuration between invocations
SeqReceive ==
    \E r \in SeqReadings :
        /\ Quiescent
        /\ ingested < MaxIngest
        /\ Receive(1, "d1", r)

SeqConfigResolved == ConfigResolved(1)

SeqErrorResolved == ErrorResolved(1)

SeqWriteLands == \E w \in pending : WriteLands(w)

SeqUserEdit ==
    \E c \in UserConfigs :
        /\ Quiescent
        /\ UserEdit("d1", c)

Next ==
    \/ SeqReceive
    \/ SeqConfigResolved
    \/ SeqErrorResolved
    \/ SeqWriteLands
    \/ SeqUserEdit

Spec == Init /\ [][Next]_vars

\* One evaluation on every input: the store holds any of the configurations
\* and error documents, and one message with any reading is received
EvalInit ==
    /\ \E c \in {NoDocument} \cup {Document(x) : x \in UserConfigs} :
           cfgStore = [d \in DeviceIds |-> IF d = "d1" THEN c ELSE NoDocument]
    /\ \E e \in EvalErrorDocs :
           errStore = [d \in DeviceIds |-> IF d = "d1" THEN Document(e) ELSE NoDocument]
    /\ EmptyStores

EvalReceive ==
    \E r \in EvalReadings :
        /\ ingested = 0
        /\ Receive(1, "d1", r)

EvalNext ==
    \/ EvalReceive
    \/ SeqConfigResolved
    \/ SeqErrorResolved
    \/ SeqWriteLands

EvalSpec == EvalInit /\ [][EvalNext]_vars

\* Concurrent runs: invocations for the two devices, or for one, overlap in
\* any way, their writes reach the store in any order, and a user edits the
\* configuration of d1 at any moment. A run starts with no device seen, or
\* with both seen once (their first message created the default documents);
\* the devices being alike, the first message of a run is taken to be d1's.
MaxConcIngest == 2

ConcReadings == {[temperature |-> 26], [battery_voltage |-> 39]}

ConcConfigs == {WideConfig}

FirstReading == [water_level |-> 0, timestamp |-> 0]

ConcInit ==
    /\ \E seen \in {{}, DeviceIds} :
           /\ cfgStore = [d \in DeviceIds |->
                 IF d \in seen THEN Document(DEFAULT_CONFIG_DOC) ELSE NoDocument]
           /\ errStore = [d \in DeviceIds |->
                 IF d \in seen THEN Document(DEFAULT_ERROR_DOC) ELSE NoDocument]
           /\ statusStore = [d \in DeviceIds |->
                 IF d \in seen THEN Document(FirstReading) ELSE NoDocument]
           /\ historyStore = [d \in DeviceIds |->
                 IF d \in seen THEN <<FirstReading>> ELSE <<>>]
           /\ rtdb = [n \in DeviceIds \cup {ROOT} |->
                 IF n \in seen THEN Document(FirstReading) ELSE NoDocument]
    /\ fcm = <<>>
    /\ pending = {}
    /\ task = [t \in TaskIds |-> IdleTask]
    /\ clock = 0
    /\ ingested = 0
    /\ edits = 0
    /\ hist = [d \in DeviceIds |-> [c \in Conditions |-> HistStart]]
    /\ relay = <<>>
    /\ defaults = [config |-> DEFAULT_CONFIG_DOC, error |-> DEFAULT_ERROR_DOC]

\* A message starts an invocation in the lowest free slot
ConcReceive ==
    \E t \in TaskIds, d \in DeviceIds, r \in ConcReadings :
        /\ ingested < MaxConcIngest
        /\ ingested = 0 => d = "d1"
        /\ \A u \in TaskIds :
               u < t => (task[u].pc \notin {"idle", "done"} \/ \E w \in pending : w.task = u)
        /\ Receive(t, d, r)

ConcConfigResolved == \E t \in TaskIds : ConfigResolved(t)

ConcErrorResolved == \E t \in TaskIds : ErrorResolved(t)

ConcUserEdit == \E c \in ConcConfigs : UserEdit("d1", c)

ConcNext ==
    \/ ConcReceive
    \/ ConcConfigResolved
    \/ ConcErrorResolved
    \/ SeqWriteLands
    \/ ConcUserEdit

ConcSpec == ConcInit /\ [][ConcNext]_vars

\* The relay on its own: configuration documents are written or deleted, by
\* users or by the ingestion, and each such event invokes the handler
RelayConfigs == {WideConfig, PartialConfig}

RelayWritten ==
    \E d \in DeviceIds, c \in RelayConfigs, keys \in KeyOrders :
        iotDeviceConfigUpdate(d, c, keys)

RelayDeleted == \E d \in DeviceIds : iotDeviceConfigUpdateDeleted(d)

RelayAccepted == \E i \in 1..Len(relay) : RequestAccepted(i)

RelayRejected == \E i \in 1..Len(relay) : RequestRejected(i)

RelayNext ==
    \/ RelayWritten
    \/ RelayDeleted
    \/ RelayAccepted
    \/ RelayRejected

RelaySpec == Init /\ [][RelayNext]_vars

----------------------------------------------------------------------------
(* Store failures *)

\* Sequential runs in which the store may fail
MaxFailIngest == 2

\* Faulty variant: the rejection of a write stops the invocation that issued
\* it, as it would had the write been awaited
WriteFailsAborts(w) ==
    /\ w \in pending
    /\ pending' = pending \ {w}
    /\ task' = [task EXCEPT ![w.task].failed = @ \cup {w.coll},
                             ![w.task].pc = "done",
                             ![w.task].result = "failure"]
    /\ UNCHANGED <<relay, defaults, cfgStore, errStore, statusStore, historyStore, rtdb, fcm,
                   clock, ingested, edits, hist>>

\* A write in flight is rejected by the store; set() and add() return
\* promises nobody holds, so nothing in the handler learns of it
WriteFails(w) ==
    /\ w \in pending
    /\ pending' = pending \ {w}
    /\ task' = [task EXCEPT ![w.task].failed = @ \cup {w.coll}]
    /\ UNCHANGED <<relay, defaults, cfgStore, errStore, statusStore, historyStore, rtdb, fcm,
                   clock, ingested, edits, hist>>

\* The configuration read is rejected: the promise the handler returned
\* (get().then(...)) rejects
ConfigGetFails(t) ==
    /\ task[t].pc = "cfgGet"
    /\ task' = [task EXCEPT ![t].pc = "done", ![t].result = "failure",
                             ![t].readFailed = TRUE]
    /\ UNCHANGED <<relay, defaults, cfgStore, errStore, statusStore, historyStore, rtdb, fcm,
                   pending, clock, ingested, edits, hist>>

\* The error read is rejected: its promise is not part of the chain the
\* handler returned, which has resolved already
ErrorGetFails(t) ==
    /\ task[t].pc = "errGet"
    /\ task' = [task EXCEPT ![t].pc = "done", ![t].readFailed = TRUE]
    /\ UNCHANGED <<relay, defaults, cfgStore, errStore, statusStore, historyStore, rtdb, fcm,
                   pending, clock, ingested, edits, hist>>

\* A notification send is rejected by the messaging service; sendToTopic
\* returns a promise nobody holds (line 525), and by then the evaluation that
\* issued it has gone on to its end
FCM == "fcm"

SendFails(t) ==
    /\ task[t].pc = "done"
    /\ task[t].sent # <<>>
    /\ FCM \notin task[t].failed
    /\ task' = [task EXCEPT ![t].failed = @ \cup {FCM}]
    /\ UNCHANGED <<relay, defaults, cfgStore, errStore, statusStore, historyStore, rtdb, fcm,
                   pending, clock, ingested, edits, hist>>

\* Readings of the runs with failures: out of range, and in range
FailReadings == {[temperature |-> 26], [temperature |-> 25]}

FailReceive ==
    \E r \in FailReadings :
        /\ Quiescent
        /\ ingested < MaxFailIngest
        /\ Receive(1, "d1", r)

FailWriteFails == \E w \in pending : WriteFails(w)

FailConfigGetFails == ConfigGetFails(1)

FailErrorGetFails == ErrorGetFails(1)

FailSendFails == SendFails(1)

FailReceiveNoDeviceId ==
    \E r \in {[temperature |-> 26]} :
        /\ Quiescent
        /\ ingested < MaxFailIngest
        /\ ReceiveNoDeviceId(1, r)

FailReceiveMalformed ==
    /\ Quiescent
    /\ ingested < MaxFailIngest
    /\ ReceiveMalformed(1)

FailNext ==
    \/ FailReceive
    \/ SeqConfigResolved
    \/ SeqErrorResolved
    \/ SeqWriteLands
    \/ FailWriteFails
    \/ FailConfigGetFails
    \/ FailErrorGetFails
    \/ FailSendFails
    \/ FailReceiveNoDeviceId
    \/ FailReceiveMalformed

FailSpec == Init /\ [][FailNext]_vars

----------------------------------------------------------------------------
(* Properties *)

\* Invocation t has run detectSystemErrors
Evaluated(t) == task[t].pc = "done" /\ task[t].evaluated

\* The error-state the evaluation of t started from, ended with, and wrote
Prior(t) == task[t].loaded.data
Resulting(t) == task[t].piErrorData
Persisted(t) == task[t].errWrites[1]

\* The flag has the same presence and value in both documents
SameFlag(a, b, c) == Has(a, c) = Has(b, c) /\ (Has(a, c) => a[c] = b[c])

\* C1: in one evaluation a notification for a condition is sent if and only
\* if the flag was false or absent before and is true after; one message is
\* sent per such condition, so a flag that stays true or goes from true to
\* false sends nothing.
C1_EdgeTriggered ==
    \A t \in TaskIds :
        Evaluated(t) =>
            /\ \A c \in Conditions :
                   c \in task[t].notified <=>
                       ~Truthy(Prior(t), c) /\ Truthy(Resulting(t), c)
            /\ Len(task[t].sent) =
                   Cardinality({c \in Conditions :
                       ~Truthy(Prior(t), c) /\ Truthy(Resulting(t), c)})

\* An evaluation in which one flag stays true under a violating reading
\* (silent), another goes from false to true (notified)
C1_Witness ==
    /\ Evaluated(1)
    /\ \E c \in Conditions :
           /\ Truthy(Prior(1), c) /\ Truthy(Resulting(1), c)
           /\ Judged(c, task[1].deviceData, task[1].piConfigData)
           /\ c \notin task[1].notified
    /\ \E c \in Conditions : c \in task[1].notified
    /\ Len(task[1].sent) = 1

\* C2: in sequential runs with an unchanged configuration no notification
\* for a condition is sent while an earlier one for it has not been followed
\* by an in-range reading, and two consecutive out-of-range readings (starting
\* with the flag not set) have produced exactly one notification.
C2_NoRepeat ==
    \A d \in DeviceIds : \A c \in Conditions :
        /\ ~hist[d][c].dup
        /\ hist[d][c].clean => hist[d][c].streakNotifs <= 1
        /\ (Quiescent /\ hist[d][c].clean /\ hist[d][c].streak = 2)
               => hist[d][c].streakNotifs = 1

\* The third message of a run repeats a violation already notified and is
\* evaluated without a notification
C2_Witness ==
    /\ Quiescent
    /\ ingested >= 3
    /\ Evaluated(1)
    /\ hist["d1"]["TEMP_HIGH"].streak = 2
    /\ hist["d1"]["TEMP_HIGH"].streakNotifs = 1
    /\ hist["d1"]["TEMP_HIGH"].armed
    /\ Truthy(Prior(1), "TEMP_HIGH")
    /\ task[1].sent = <<>>

\* C3: a flag whose sensor the reading omits is written back as it was
\* loaded, and no notification is sent for it.
C3_MissingSensorKeepsFlag ==
    \A t \in TaskIds :
        Evaluated(t) =>
            \A c \in Conditions :
                ~Has(task[t].deviceData, SensorOf(c)) =>
                    /\ SameFlag(Prior(t), Persisted(t), c)
                    /\ c \notin task[t].notified

\* A reading without temperature is evaluated while TEMP_HIGH is set, and
\* another sensor of the same reading sends a notification
C3_Witness ==
    /\ Evaluated(1)
    /\ ~Has(task[1].deviceData, "temperature")
    /\ Truthy(Prior(1), "TEMP_HIGH")
    /\ Truthy(Persisted(1), "TEMP_HIGH")
    /\ task[1].notified # {}

\* C4: when the reading has the sensor and the configuration the threshold,
\* the resulting flag is the strict comparison of the two.
C4_StrictThresholds ==
    \A t \in TaskIds :
        Evaluated(t) =>
            LET r == task[t].deviceData
                cfg == task[t].piConfigData
                e == Resulting(t)
            IN  /\ (Has(r, "temperature") /\ Has(cfg, "max_temperature")) =>
                       (Has(e, "TEMP_HIGH") /\ e["TEMP_HIGH"] = (r["temperature"] > cfg["max_temperature"]))
                /\ (Has(r, "temperature") /\ Has(cfg, "min_temperature")) =>
                       (Has(e, "TEMP_LOW") /\ e["TEMP_LOW"] = (r["temperature"] < cfg["min_temperature"]))
                /\ (Has(r, "pH") /\ Has(cfg, "max_ph")) =>
                       (Has(e, "PH_HIGH") /\ e["PH_HIGH"] = (r["pH"] > cfg["max_ph"]))
                /\ (Has(r, "pH") /\ Has(cfg, "min_ph")) =>
                       (Has(e, "PH_LOW") /\ e["PH_LOW"] = (r["pH"] < cfg["min_ph"]))

\* A temperature exactly at max_temperature clears a TEMP_HIGH that was set
C4_Witness ==
    /\ Evaluated(1)
    /\ Has(task[1].deviceData, "temperature")
    /\ Has(task[1].piConfigData, "max_temperature")
    /\ task[1].deviceData["temperature"] = task[1].piConfigData["max_temperature"]
    /\ Truthy(Prior(1), "TEMP_HIGH")
    /\ ~Truthy(Resulting(1), "TEMP_HIGH")

\* C5: whatever the configuration, battery_voltage below 4.0 V, leak above
\* 0.6 V and internal_leak above 0.6 V decide their flags (tenths of a volt).
C5_FixedThresholds ==
    \A t \in TaskIds :
        Evaluated(t) =>
            LET r == task[t].deviceData
                e == Resulting(t)
            IN  /\ Has(r, "battery_voltage") =>
                       (Has(e, "BATTERY_LOW") /\ e["BATTERY_LOW"] = (r["battery_voltage"] < 40))
                /\ Has(r, "leak") =>
                       (Has(e, "LEAK_DETECTED") /\ e["LEAK_DETECTED"] = (r["leak"] > 6))
                /\ Has(r, "internal_leak") =>
                       (Has(e, "INTERNAL_LEAK_DETECTED")
                            /\ e["INTERNAL_LEAK_DETECTED"] = (r["internal_leak"] > 6))

\* Under a configuration without any threshold key a battery at exactly
\* 4.0 V clears BATTERY_LOW and a leak above 0.6 V sets LEAK_DETECTED
C5_Witness ==
    /\ Evaluated(1)
    /\ task[1].piConfigData = NoThresholdConfig
    /\ Has(task[1].deviceData, "battery_voltage")
    /\ task[1].deviceData["battery_voltage"] = 40
    /\ Truthy(Prior(1), "BATTERY_LOW")
    /\ ~Truthy(Resulting(1), "BATTERY_LOW")
    /\ Has(task[1].deviceData, "leak")
    /\ Truthy(Resulting(1), "LEAK_DETECTED")

\* The conditions the reading of t violates and whose flag was not set
NewlyViolated(t) ==
    {c \in Conditions :
        /\ Judged(c, task[t].deviceData, task[t].piConfigData)
        /\ Violates(c, task[t].deviceData, task[t].piConfigData)
        /\ ~Truthy(Prior(t), c)}

\* C8: an evaluation sends one notification per newly violated condition and
\* issues exactly one error-state write, which has all their flags set.
C8_SimultaneousConditions ==
    \A t \in TaskIds :
        Evaluated(t) =>
            /\ task[t].notified = NewlyViolated(t)
            /\ Len(task[t].sent) = Cardinality(NewlyViolated(t))
            /\ Len(task[t].errWrites) = 1
            /\ \A c \in NewlyViolated(t) : Truthy(Persisted(t), c)

\* pH above max_ph and a low battery in one reading against an all-false
\* error-state: two notifications and one write
C8_Witness ==
    /\ Evaluated(1)
    /\ Prior(1) = DEFAULT_ERROR_DOC
    /\ NewlyViolated(1) = {"PH_HIGH", "BATTERY_LOW"}
    /\ Len(task[1].sent) = 2
    /\ Truthy(Persisted(1), "PH_HIGH") /\ Truthy(Persisted(1), "BATTERY_LOW")

\* C6: every reading taken through the error-state step was evaluated, and
\* once the first message of a never-seen device is over, every condition its
\* reading violates has its flag set in the store and one notification sent.
C6_EveryReadingEvaluated ==
    /\ \A t \in TaskIds : task[t].pc = "done" => task[t].evaluated
    /\ (Quiescent /\ ingested = 1 /\ edits = 0) =>
           \A c \in Conditions :
               (Judged(c, task[1].deviceData, task[1].piConfigData)
                    /\ Violates(c, task[1].deviceData, task[1].piConfigData))
               => (Truthy(errStore["d1"].data, c) /\ c \in task[1].notified)

\* C7: between sequential ingestions a stored flag is set if and only if the
\* last reading judged for it was out of range; with no such reading it is
\* not set.
C7_FlagIsLastVerdict ==
    Quiescent =>
        \A d \in DeviceIds : \A c \in Conditions :
            Truthy(errStore[d].data, c) <=> hist[d][c].verdict = "viol"

\* C9: after the first message of a never-seen device the store holds the
\* default configuration and an error document with all eight flags, and the
\* default configuration is in the store by the time the next step (the error
\* read) is under way.
C9_DefaultsPersistedBeforeHandOn ==
    /\ (Quiescent /\ ingested >= 1 /\ edits = 0) =>
           /\ cfgStore["d1"] = Document(DEFAULT_CONFIG_DOC)
           /\ errStore["d1"].exists
           /\ DOMAIN errStore["d1"].data = ErrorFlags
    /\ \A t \in TaskIds :
           (task[t].pc \in {"errGet", "done"} /\ task[t].cfgDefault)
               => cfgStore[task[t].deviceId].exists

\* C10: an invocation whose error-state write, issued at the end of the
\* evaluation, failed reports a failure.
C10_ErrorWriteFailureSurfaced ==
    \A t \in TaskIds :
        (task[t].evaluated /\ ERROR_COLLECTION \in task[t].failed)
            => task[t].result = "failure"

\* The calls whose outcome the handler never looks at
Telemetry == {RTDB, STATUS_COLLECTION, HISTORY_COLLECTION, FCM}

\* C11: an invocation some of whose telemetry writes or notification sends
\* failed, and whose two reads succeeded, still fetched the configuration,
\* evaluated the reading with the verdicts and notifications the reading
\* calls for, and issued its one error-state write, which reaches the store
\* unless that write itself fails.
C11_TelemetryFailureDoesNotStopIngestion ==
    \A t \in TaskIds :
        (/\ task[t].pc = "done"
         /\ task[t].valid
         /\ ~task[t].readFailed
         /\ task[t].failed \cap Telemetry # {})
            => /\ task[t].piConfigData # EmptyDoc
               /\ Len(task[t].errWrites) = 1
               /\ task[t].loaded.exists =>
                      /\ task[t].evaluated
                      /\ \A c \in Conditions :
                             Judged(c, task[t].deviceData, task[t].piConfigData) =>
                                 Truthy(Persisted(t), c) =
                                     Violates(c, task[t].deviceData, task[t].piConfigData)
                      /\ task[t].notified = NewlyViolated(t)
                      /\ Len(task[t].sent) = Cardinality(NewlyViolated(t))
               /\ ERROR_COLLECTION \notin task[t].failed =>
                      \/ \E w \in pending :
                             /\ w.task = t /\ w.coll = ERROR_COLLECTION
                             /\ w.data = Persisted(t)
                      \/ errStore[task[t].deviceId] = Document(Persisted(t))

C11_Witness ==
    /\ Evaluated(1)
    /\ {STATUS_COLLECTION, HISTORY_COLLECTION, FCM} \subseteq task[1].failed
    /\ task[1].notified # {}
    /\ errStore["d1"] = Document(Persisted(1))
    /\ Persisted(1) # Prior(1)

\* C12: an invocation on a message that is malformed or has no deviceId
\* attribute issues no store write and sends no notification.
C12_InvalidMessageRejected ==
    \A t \in TaskIds :
        ~task[t].valid =>
            /\ \A w \in pending : w.task # t
            /\ task[t].sent = <<>>
            /\ rtdb[ROOT] = NoDocument

\* The message that names condition c
MessageOf(c) ==
    CASE c = "TEMP_HIGH" -> TEMP_HIGH_MSG
      [] c = "TEMP_LOW" -> TEMP_LOW_MSG
      [] c = "PH_HIGH" -> PH_HIGH_MSG
      [] c = "PH_LOW" -> PH_LOW_MSG
      [] c = "BATTERY_LOW" -> BATTERY_LOW_MSG
      [] c = "INTERNAL_LEAK_DETECTED" -> INTERNAL_LEAK_MSG
      [] c = "LEAK_DETECTED" -> LEAK_MSG

\* C13: every notification of an evaluation goes to the topic named by the
\* device, with the generic warning as body, priority "high" and a time to
\* live of 86400 seconds, and the titles sent are the device identifier,
\* ": " and the message of the condition, for each condition notified.
C13_NotificationFormat ==
    \A t \in TaskIds :
        Evaluated(t) =>
            /\ \A i \in 1..Len(task[t].sent) :
                   /\ task[t].sent[i].topic = task[t].deviceId
                   /\ task[t].sent[i].notification.body = GENERIC_WARN_MSG
                   /\ task[t].sent[i].options.priority = "high"
                   /\ task[t].sent[i].options.timeToLive = 86400
            /\ {task[t].sent[i].notification.title : i \in 1..Len(task[t].sent)}
                   = {task[t].deviceId \o ": " \o MessageOf(c) : c \in task[t].notified}

C15_Idempotent ==
    \A t \in TaskIds :
        (/\ Quiescent
         /\ task[t].pc = "done"
         /\ task[t].again
         /\ task[t].piConfigData = task[t].before.config)
            => /\ task[t].sent = <<>>
               /\ errStore[task[t].deviceId] = task[t].before.stored

\* The same, for a first ingestion that was evaluated
C15_IdempotentOnceEvaluated ==
    \A t \in TaskIds :
        (/\ Quiescent
         /\ task[t].pc = "done"
         /\ task[t].again
         /\ task[t].before.evaluated
         /\ task[t].piConfigData = task[t].before.config)
            => /\ task[t].sent = <<>>
               /\ errStore[task[t].deviceId] = task[t].before.stored

\* What the receiver of a push request does with its payload: decode the
\* base64 text to bytes, the bytes to text, and parse the text as JSON
Base64Value ==
    [ch \in {Base64Alphabet[i] : i \in 1..64} |->
        (CHOOSE i \in 1..64 : Base64Alphabet[i] = ch) - 1]

RECURSIVE FromBase64(_)
FromBase64(chars) ==
    IF chars = <<>>
    THEN <<>>
    ELSE LET padding == Cardinality({i \in 3..4 : chars[i] = "="})
             v(i) == IF chars[i] = "=" THEN 0 ELSE Base64Value[chars[i]]
             q == v(1) * 262144 + v(2) * 4096 + v(3) * 64 + v(4)
             bytes == <<q \div 65536, (q \div 256) % 256, q % 256>>
         IN  SubSeq(bytes, 1, 3 - padding)
                 \o (IF Len(chars) > 4 THEN FromBase64(SubSeq(chars, 5, Len(chars))) ELSE <<>>)

JsonChars ==
    {"\"", ",", "0", "1", "2", "3", "4", "5", "6", "7", "8", "9",
     ":", "_", "a", "c", "d", "e", "f", "g", "h", "i", "l", "m",
     "n", "o", "p", "r", "s", "t", "u", "v", "x", "{", "}"}

CharOfCode ==
    [b \in {CharCode(ch) : ch \in JsonChars} |->
        CHOOSE ch \in JsonChars : CharCode(ch) = b]

BufferToString(bytes) == [i \in 1..Len(bytes) |-> CharOfCode[bytes[i]]]

\* The pieces of a text between the occurrences of a separator
Split(text, sep) ==
    LET cuts == {i \in 1..Len(text) : text[i] = sep}
        n == Cardinality(cuts)
        cut(k) == CHOOSE i \in cuts : Cardinality({j \in cuts : j < i}) = k - 1
    IN  [k \in 1..(n + 1) |->
            SubSeq(text, IF k = 1 THEN 1 ELSE cut(k - 1) + 1,
                         IF k = n + 1 THEN Len(text) ELSE cut(k) - 1)]

RECURSIVE ParseNumber(_)
ParseNumber(chars) ==
    IF chars = <<>>
    THEN 0
    ELSE ParseNumber(SubSeq(chars, 1, Len(chars) - 1)) * 10
             + ((CHOOSE n \in 1..10 : Digits[n] = chars[Len(chars)]) - 1)

ParseValue(chars) ==
    IF chars = <<"t", "r", "u", "e">> THEN TRUE
    ELSE IF chars = <<"f", "a", "l", "s", "e">> THEN FALSE
    ELSE ParseNumber(chars)

RECURSIVE ParseMembers(_)
ParseMembers(members) ==
    IF members = <<>>
    THEN EmptyDoc
    ELSE LET parts == Split(Head(members), ":")
             name == SubSeq(parts[1], 2, Len(parts[1]) - 1)
             key == CHOOSE k \in DOMAIN DEFAULT_CONFIG_DOC : KeyChars(k) = name
         IN  SetField(ParseMembers(Tail(members)), key, ParseValue(parts[2]))

JSON_parse(text) ==
    IF Len(text) = 2
    THEN EmptyDoc
    ELSE ParseMembers(Split(SubSeq(text, 2, Len(text) - 1), ","))

\* A sequence of characters as one string
RECURSIVE Text(_)
Text(chars) ==
    IF chars = <<>> THEN ""
    ELSE IF Len(chars) = 1 THEN chars[1]
    ELSE LET half == Len(chars) \div 2
         IN  Text(SubSeq(chars, 1, half)) \o Text(SubSeq(chars, half + 1, Len(chars)))

\* C16: every invocation of the relay on a written configuration document
\* issues exactly one request, also when the request is rejected; the
\* request names projects/piponics/locations/us-central1/registries/
\* RaspberryPis/devices/<deviceId> for the deviceId of the event, and its
\* payload decodes to exactly the document written; no store write is issued
\* or applied and no notification is sent.
C16_RelayOneFaithfulRequest ==
    /\ \A i \in 1..Len(relay) :
           relay[i].after.exists =>
               /\ Len(relay[i].requests) = 1
               /\ relay[i].requests[1].name =
                      "projects/piponics/locations/us-central1/registries/RaspberryPis/devices/"
                          \o relay[i].deviceId
               /\ JSON_parse(BufferToString(FromBase64(relay[i].requests[1].binaryData)))
                      = relay[i].after.data
    /\ relay # <<>> =>
           /\ pending = {}
           /\ fcm = <<>>
           /\ \A d \in DeviceIds :
                  /\ ~cfgStore[d].exists /\ ~errStore[d].exists
                  /\ ~statusStore[d].exists /\ historyStore[d] = <<>>
           /\ \A n \in DOMAIN rtdb : ~rtdb[n].exists

\* A rejected request for a configuration of d1 with every field, whose
\* payload is the base64 text of
\*   {"max_ph":11,"min_ph":4,"max_temperature":26,"min_temperature":14,
\*    "peristaltic_pump_on":false,"target_ph":7,"update_interval_minutes":30}
\* (without the line break),
\* and an accepted request for a document of d2 that lacks fields
C16_Witness ==
    /\ Len(relay) = 2
    /\ relay[1].deviceId = "d1"
    /\ relay[1].outcome = "failure"
    /\ relay[1].after = Document(WideConfig)
    /\ Len(relay[1].requests) = 1
    /\ Text(relay[1].requests[1].binaryData) =
        "eyJtYXhfcGgiOjExLCJtaW5fcGgiOjQsIm1heF90ZW1wZXJhdHVyZSI6MjYs" \o
        "Im1pbl90ZW1wZXJhdHVyZSI6MTQsInBlcmlzdGFsdGljX3B1bXBfb24iOmZh" \o
        "bHNlLCJ0YXJnZXRfcGgiOjcsInVwZGF0ZV9pbnRlcnZhbF9taW51dGVzIjoz" \o
        "MH0="
    /\ relay[2].deviceId = "d2"
    /\ relay[2].after = Document(PartialConfig)
    /\ relay[2].outcome = "success"

\* C17: invocations for different devices do not touch each other. Every
\* write an invocation issues goes to the document named by its own device,
\* every notification it sends goes to its own device's topic, the
\* configuration and error-state it works on are read from its own device's
\* documents, and the documents of a device change only when a write of an
\* invocation for that device is applied (or a user edits its configuration).
C17_DevicesIndependent ==
    [][ /\ \A w \in pending' \ pending : w.doc = task'[w.task].deviceId
        /\ \A i \in (Len(fcm) + 1)..Len(fcm') :
               \E t \in TaskIds :
                   /\ task[t].pc = "errGet" /\ task'[t].pc = "done"
                   /\ fcm'[i].topic = task[t].deviceId
        /\ \A t \in TaskIds :
               /\ (task[t].pc = "cfgGet" /\ task'[t].pc = "errGet") =>
                      task'[t].piConfigData =
                          IF cfgStore[task[t].deviceId].exists
                          THEN cfgStore[task[t].deviceId].data
                          ELSE DEFAULT_CONFIG_DOC
               /\ (task[t].pc = "errGet" /\ task'[t].pc = "done") =>
                      task'[t].loaded = errStore[task[t].deviceId]
        /\ \A d \in DeviceIds :
               (\/ cfgStore'[d] # cfgStore[d] \/ errStore'[d] # errStore[d]
                \/ statusStore'[d] # statusStore[d]
                \/ historyStore'[d] # historyStore[d]
                \/ rtdb'[d] # rtdb[d])
                   => \/ edits' # edits
                      \/ \E w \in pending \ pending' : task[w.task].deviceId = d
      ]_vars

\* Two overlapping invocations, one per device, both evaluated and both
\* notifying, all their writes applied
C17_Witness ==
    /\ task[1].deviceId = "d1" /\ task[2].deviceId = "d2"
    /\ Evaluated(1) /\ Evaluated(2)
    /\ task[1].notified # {} /\ task[2].notified # {}
    /\ pending = {}
    /\ errStore["d1"] = Document(Persisted(1))
    /\ errStore["d2"] = Document(Persisted(2))
    /\ errStore["d1"] # errStore["d2"]

\* C18: the ingestion issues a configuration write only with the default
\* document and only for a device whose configuration document does not
\* exist, and a configuration written by a user (an existing document that
\* differs from the default) is changed by nothing but a user's edit.
C18_UserConfigNeverReplaced ==
    [][ /\ \A w \in pending' \ pending :
               w.coll = CONFIG_COLLECTION =>
                   /\ w.data = DEFAULT_CONFIG_DOC
                   /\ ~cfgStore[w.doc].exists
        /\ \A d \in DeviceIds :
               (/\ cfgStore[d].exists
                /\ cfgStore[d].data # DEFAULT_CONFIG_DOC
                /\ cfgStore'[d] # cfgStore[d])
                   => edits' = edits + 1
      ]_vars

\* C19 as claimed: the document written by an evaluation has all eight
\* flags, whatever document was loaded.
C19_AllFlagsWritten ==
    \A t \in TaskIds :
        Evaluated(t) => DOMAIN Persisted(t) = ErrorFlags

\* C19 amended: the document written by an evaluation has the flags of the
\* loaded document and those of the conditions the reading and configuration
\* judge, no others; so it has all eight when the loaded document has.
C19_FlagsOfLoadedAndJudged ==
    \A t \in TaskIds :
        Evaluated(t) =>
            /\ DOMAIN Persisted(t) =
                   DOMAIN Prior(t) \cup
                       {c \in Conditions :
                           Judged(c, task[t].deviceData, task[t].piConfigData)}
            /\ DOMAIN Prior(t) = ErrorFlags => DOMAIN Persisted(t) = ErrorFlags

C19_Witness ==
    /\ Evaluated(1)
    /\ DOMAIN Prior(1) = LegacyFlags
    /\ DOMAIN Persisted(1) = LegacyFlags \cup {"BATTERY_LOW"}
    /\ Persisted(1)["BATTERY_LOW"] = FALSE

\* C20: an invocation that found an error-state document evaluated the
\* reading and issued exactly one error-state write, as the last of its
\* calls, after every send of the evaluation, also when no flag changed.
C20_OneWriteAfterSends ==
    \A t \in TaskIds :
        (task[t].pc = "done" /\ task[t].loaded.exists) =>
            /\ task[t].evaluated
            /\ Len(task[t].errWrites) = 1
            /\ Len(task[t].calls) = Len(task[t].sent) + 1
            /\ \A i \in 1..Len(task[t].calls) :
                   task[t].calls[i] = IF i = Len(task[t].calls) THEN "set" ELSE "sendToTopic"
            /\ Persisted(t) = Resulting(t)

\* An evaluation that changed no flag and sent nothing, its write applied
C20_Witness ==
    /\ Evaluated(1)
    /\ Has(task[1].deviceData, "temperature")
    /\ Persisted(1) = Prior(1)
    /\ task[1].sent = <<>>
    /\ task[1].calls = <<"set">>
    /\ pending = {}
    /\ errStore["d1"] = Document(Prior(1))

\* The calls of an invocation up to the configuration read, and up to the
\* error read
StepsToConfigRead ==
    <<"Timestamp.now", "rtdb.set", "Status.set", "History.add", "Config.get">>

StepsToErrorRead(t) ==
    StepsToConfigRead
        \o (IF task[t].cfgDefault THEN <<"Config.set">> ELSE <<>>)
        \o <<"Error.get">>

\* C21: an invocation takes the server time, issues the status and history
\* writes, which carry that time, and only then reads the configuration; it
\* reads the error-state only after the configuration is resolved; it then
\* evaluates and sends the notifications, and the issue of the error-state
\* write is its last call.
C21_PipelineOrder ==
    /\ \A t \in TaskIds :
           /\ task[t].pc = "cfgGet" => task[t].steps = StepsToConfigRead
           /\ task[t].pc = "errGet" =>
                  /\ task[t].steps = StepsToErrorRead(t)
                  /\ task[t].piConfigData # EmptyDoc
           /\ (task[t].pc = "done" /\ task[t].valid /\ ~task[t].readFailed) =>
                  /\ task[t].steps =
                         StepsToErrorRead(t)
                             \o [i \in 1..Len(task[t].sent) |-> "sendToTopic"]
                             \o <<"set">>
                  /\ Len(task[t].errWrites) = 1
                  /\ task[t].loaded.exists => task[t].evaluated
    /\ \A w \in pending :
           w.coll \in {STATUS_COLLECTION, HISTORY_COLLECTION} =>
               /\ Has(w.data, "timestamp")
               /\ w.data["timestamp"] = task[w.task].deviceData["timestamp"]
               /\ w.data["timestamp"] <= clock
    /\ \A d \in DeviceIds :
           /\ statusStore[d].exists =>
                  (Has(statusStore[d].data, "timestamp")
                      /\ statusStore[d].data["timestamp"] <= clock)
           /\ \A i \in 1..Len(historyStore[d]) :
                  (Has(historyStore[d][i], "timestamp")
                      /\ historyStore[d][i]["timestamp"] <= clock)

\* An evaluation that sent two notifications, all the writes of its
\* invocation applied
C21_Witness ==
    /\ Evaluated(1)
    /\ Len(task[1].sent) = 2
    /\ Len(task[1].steps) = 9
    /\ pending = {}
    /\ statusStore["d1"] = Document(task[1].deviceData)
    /\ errStore["d1"] = Document(Persisted(1))

\* C22: an invocation is reported complete (the promise its handler
\* returned has resolved) only once it has read the error-state, evaluated
\* and issued its error-state write.
C22_CompleteAfterErrorWrite ==
    \A t \in TaskIds :
        task[t].result = "success" =>
            /\ task[t].pc = "done"
            /\ Len(task[t].errWrites) = 1

\* Orders in which the keys of a configuration may be enumerated, other
\* than the two the runs use
OtherKeyOrders ==
    { <<"min_temperature", "max_ph", "target_ph", "max_temperature",
        "update_interval_minutes", "min_ph", "peristaltic_pump_on">>,
      <<"peristaltic_pump_on", "max_temperature", "min_ph", "min_temperature",
        "max_ph", "update_interval_minutes", "target_ph">>,
      <<"min_ph", "min_temperature", "update_interval_minutes", "max_ph",
        "target_ph", "peristaltic_pump_on", "max_temperature">> }

ThresholdConditions == {"TEMP_LOW", "TEMP_HIGH", "PH_LOW", "PH_HIGH"}

\* C23: in an evaluation a threshold condition whose key the configuration
\* lacks keeps its flag and sends nothing, whatever the reading holds; every
\* flag written is the verdict of the reading when the condition is judged
\* and the flag's own prior value otherwise, and a notification is sent
\* exactly for the judged, violated conditions whose own flag was not set;
\* and the evaluation in any other order of the configuration keys writes
\* the same document and notifies for the same conditions.
C23_KeyPresenceAndOrder ==
    \A t \in TaskIds :
        Evaluated(t) =>
            /\ \A c \in ThresholdConditions :
                   ~Has(task[t].piConfigData, ThresholdKeyOf(c)) =>
                       /\ SameFlag(Persisted(t), Prior(t), c)
                       /\ c \notin task[t].notified
            /\ \A c \in Conditions :
                   LET judged == Judged(c, task[t].deviceData, task[t].piConfigData)
                       viol == judged /\ Violates(c, task[t].deviceData, task[t].piConfigData)
                   IN  /\ Truthy(Persisted(t), c) =
                              (IF judged THEN viol ELSE Truthy(Prior(t), c))
                       /\ (c \in task[t].notified) = (viol /\ ~Truthy(Prior(t), c))
            /\ \A keys \in KeyOrders \cup OtherKeyOrders :
                   LET other == detectSystemErrors(t, task[t].deviceId, task[t].deviceData,
                                    task[t].piConfigData, Prior(t), keys)
                   IN  /\ other.errorData = Persisted(t)
                       /\ other.notified = task[t].notified
                       /\ Len(other.fcm) = Len(task[t].sent)

\* A configuration without max_temperature and min_ph, a reading with a high
\* temperature and a low pH: TEMP_HIGH stays unset, PH_LOW stays set,
\* nothing is sent
C23_Witness ==
    /\ Evaluated(1)
    /\ task[1].piConfigData = PartialConfig
    /\ Has(task[1].deviceData, "temperature") /\ task[1].deviceData["temperature"] = 26
    /\ Has(task[1].deviceData, "pH") /\ task[1].deviceData["pH"] = 4
    /\ Truthy(Prior(1), "PH_LOW") /\ Truthy(Persisted(1), "PH_LOW")
    /\ ~Truthy(Prior(1), "TEMP_HIGH") /\ ~Truthy(Persisted(1), "TEMP_HIGH")
    /\ task[1].sent = <<>>

\* C24: two notifications for a condition during one unbroken violation
\* (no in-range reading and no configuration edit between them) are sent only
\* when the invocations for the device overlapped; invocations that follow
\* one another never produce them.
C24_DuplicateOnlyWhenOverlapping ==
    \A d \in DeviceIds : \A c \in Conditions :
        (hist[d][c].dup \/ hist[d][c].streakNotifs >= 2) => hist[d][c].overlap

\* Two overlapping invocations for d1 with the same high temperature both
\* loaded TEMP_HIGH not set and both sent the notification
C24_Witness ==
    /\ \A t \in TaskIds :
           /\ Evaluated(t)
           /\ task[t].deviceId = "d1"
           /\ Has(task[t].deviceData, "temperature")
           /\ ~Truthy(Prior(t), "TEMP_HIGH")
           /\ task[t].notified = {"TEMP_HIGH"}
    /\ Len(fcm) = 2
    /\ fcm[1] = fcm[2]
    /\ hist["d1"]["TEMP_HIGH"].streakNotifs = 2
    /\ hist["d1"]["TEMP_HIGH"].overlap

\* The invocation t is over for device d and judged condition c on a reading
\* that carries the sensor of c alone
JudgedAlone(t, d, c) ==
    /\ Evaluated(t)
    /\ task[t].deviceId = d
    /\ DOMAIN task[t].deviceData = {SensorOf(c), "timestamp"}
    /\ Judged(c, task[t].deviceData, task[t].piConfigData)

\* C25: once two invocations for a device whose readings carry different
\* single sensors are over and all writes have landed, the stored error
\* document holds for each sensor's condition the verdict of the reading
\* that carried the sensor.
C25_NoLostUpdate ==
    \A d \in DeviceIds : \A t, u \in TaskIds : \A c, e \in Conditions :
        (/\ Quiescent
         /\ t # u
         /\ SensorOf(c) # SensorOf(e)
         /\ JudgedAlone(t, d, c)
         /\ JudgedAlone(u, d, e))
            => /\ errStore[d].exists
               /\ Truthy(errStore[d].data, c)
                      = Violates(c, task[t].deviceData, task[t].piConfigData)
               /\ Truthy(errStore[d].data, e)
                      = Violates(e, task[u].deviceData, task[u].piConfigData)

\* The invocation t is over and created the error document of its device
CreatedErrorDefault(t) ==
    task[t].pc = "done" /\ task[t].valid /\ ~task[t].readFailed /\ ~task[t].loaded.exists

\* C26: the shared default objects always hold their initial values (every
\* flag false; the initial configuration), and every configuration or error
\* document created for a device not seen before holds those values, whatever
\* the messages handled earlier.
C26_DefaultsNeverModified ==
    /\ DOMAIN defaults.error = ErrorFlags
    /\ \A f \in ErrorFlags : defaults.error[f] = FALSE
    /\ defaults.config = DEFAULT_CONFIG_DOC
    /\ \A t \in TaskIds :
           /\ task[t].cfgDefault => task[t].piConfigData = DEFAULT_CONFIG_DOC
           /\ CreatedErrorDefault(t) =>
                  /\ task[t].errWrites = <<[f \in ErrorFlags |-> FALSE]>>
                  /\ task[t].sent = <<>>
    /\ \A w \in pending :
           /\ w.coll = CONFIG_COLLECTION => w.data = DEFAULT_CONFIG_DOC
           /\ (w.coll = ERROR_COLLECTION /\ CreatedErrorDefault(w.task)) =>
                  \A f \in ErrorFlags : w.data[f] = FALSE

\* d1 was created by a message with a high temperature; d2, seen for the
\* first time after it, got the same configuration and all flags false
C26_Witness ==
    /\ Quiescent
    /\ task[1].deviceId = "d1" /\ task[2].deviceId = "d2"
    /\ CreatedErrorDefault(1) /\ CreatedErrorDefault(2)
    /\ task[1].cfgDefault /\ task[2].cfgDefault
    /\ Has(task[1].deviceData, "temperature")
    /\ task[1].deviceData["timestamp"] < task[2].deviceData["timestamp"]
    /\ cfgStore["d2"] = Document(DEFAULT_CONFIG_DOC)
    /\ cfgStore["d2"] = cfgStore["d1"]
    /\ errStore["d2"] = Document([f \in ErrorFlags |-> FALSE])
    /\ errStore["d2"] = errStore["d1"]

\* The five sensors detectSystemErrors reads, and a reading cut down to them
JudgedSensors == {SensorOf(c) : c \in Conditions}

OnlyJudgedSensors(deviceData) ==
    [k \in DOMAIN deviceData \cap JudgedSensors |-> deviceData[k]]

\* C27: an evaluation writes WATER_LEVEL_LOW as it loaded it and sends
\* nothing for it (one message per condition notified, none of them the
\* water level), and it writes and sends exactly what the evaluation of the
\* reading without its other fields (water_level, timestamp) writes and sends.
C27_WaterLevelAndOtherFieldsIgnored ==
    \A t \in TaskIds :
        Evaluated(t) =>
            /\ SameFlag(Persisted(t), Prior(t), "WATER_LEVEL_LOW")
            /\ task[t].notified \subseteq Conditions
            /\ Len(task[t].sent) = Cardinality(task[t].notified)
            /\ \A keys \in KeyOrders :
                   LET cut == detectSystemErrors(t, task[t].deviceId,
                                  OnlyJudgedSensors(task[t].deviceData),
                                  task[t].piConfigData, Prior(t), keys)
                   IN  /\ cut.errorData = Persisted(t)
                       /\ cut.notified = task[t].notified
            /\ \E keys \in KeyOrders :
                   task[t].sent = detectSystemErrors(t, task[t].deviceId,
                                      OnlyJudgedSensors(task[t].deviceData),
                                      task[t].piConfigData, Prior(t), keys).fcm

\* A reading with a water level and a high temperature: TEMP_HIGH is
\* notified, WATER_LEVEL_LOW stays unset
C27_Witness ==
    /\ Evaluated(1)
    /\ Has(task[1].deviceData, "water_level")
    /\ Has(task[1].deviceData, "timestamp")
    /\ OnlyJudgedSensors(task[1].deviceData) = [temperature |-> 26]
    /\ Has(Prior(1), "WATER_LEVEL_LOW") /\ ~Truthy(Prior(1), "WATER_LEVEL_LOW")
    /\ ~Truthy(Persisted(1), "WATER_LEVEL_LOW")
    /\ task[1].notified = {"TEMP_HIGH"}
    /\ Len(task[1].sent) = 1

\* The configuration holds both bounds of a pair, the lower not above the
\* upper, and the reading carries the sensor
BothBounds(t, sensor, lower, upper) ==
    /\ Has(task[t].deviceData, sensor)
    /\ Has(task[t].piConfigData, lower)
    /\ Has(task[t].piConfigData, upper)
    /\ task[t].piConfigData[lower] <= task[t].piConfigData[upper]

\* C28: when the configuration has min_temperature <= max_temperature and the
\* reading a temperature, the evaluation does not write TEMP_HIGH and
\* TEMP_LOW both true and does not notify for both; likewise for min_ph,
\* max_ph, the pH and PH_HIGH, PH_LOW.
C28_HighAndLowExclusive ==
    \A t \in TaskIds :
        Evaluated(t) =>
            /\ BothBounds(t, "temperature", "min_temperature", "max_temperature") =>
                   /\ ~(Truthy(Persisted(t), "TEMP_HIGH") /\ Truthy(Persisted(t), "TEMP_LOW"))
                   /\ ~({"TEMP_HIGH", "TEMP_LOW"} \subseteq task[t].notified)
            /\ BothBounds(t, "pH", "min_ph", "max_ph") =>
                   /\ ~(Truthy(Persisted(t), "PH_HIGH") /\ Truthy(Persisted(t), "PH_LOW"))
                   /\ ~({"PH_HIGH", "PH_LOW"} \subseteq task[t].notified)

\* The document loaded has all four flags set; a reading with a high
\* temperature and a high pH leaves the HIGH flags set and clears the LOW ones
C28_Witness ==
    /\ Evaluated(1)
    /\ BothBounds(1, "temperature", "min_temperature", "max_temperature")
    /\ BothBounds(1, "pH", "min_ph", "max_ph")
    /\ \A f \in {"TEMP_HIGH", "TEMP_LOW", "PH_HIGH", "PH_LOW"} : Truthy(Prior(1), f)
    /\ task[1].deviceData["temperature"] = 26 /\ task[1].deviceData["pH"] = 11
    /\ task[1].piConfigData = DEFAULT_CONFIG_DOC
    /\ Truthy(Persisted(1), "TEMP_HIGH") /\ ~Truthy(Persisted(1), "TEMP_LOW")
    /\ Truthy(Persisted(1), "PH_HIGH") /\ ~Truthy(Persisted(1), "PH_LOW")
    /\ task[1].sent = <<>>

\* A stored entry without its timestamp
WithoutTimestamp(entry) == [k \in DOMAIN entry \ {"timestamp"} |-> entry[k]]

\* With every invocation and write over, the history of d1 has one entry per
\* message received, the i-th stamped with the i-th clock value and otherwise
\* a reading as sent, and the status document is the last entry
HistoryComplete ==
    Quiescent =>
        /\ Len(historyStore["d1"]) = ingested
        /\ \A i \in 1..ingested :
               /\ Has(historyStore["d1"][i], "timestamp")
               /\ historyStore["d1"][i]["timestamp"] = i
               /\ WithoutTimestamp(historyStore["d1"][i]) \in SeqReadings
        /\ ingested > 0 =>
               /\ statusStore["d1"] = Document(historyStore["d1"][ingested])
               /\ task[1].deviceData = historyStore["d1"][ingested]
        /\ ingested = 0 => ~statusStore["d1"].exists

\* A step that receives a reading issues the history and status writes of
\* the reading plus the clock value just read, and a step that changes the
\* history of a device appends the data of such a write to it
HistoryAppendOnly ==
    /\ ingested' # ingested =>
           \E r \in SeqReadings :
               LET entry == [k \in DOMAIN r \cup {"timestamp"} |->
                                IF k = "timestamp" THEN clock' ELSE r[k]]
               IN  /\ clock' = clock + 1
                   /\ task'[1].deviceData = entry
                   /\ \A coll \in {STATUS_COLLECTION, HISTORY_COLLECTION} :
                          \E w \in pending' \ pending :
                              w.coll = coll /\ w.doc = "d1" /\ w.data = entry
    /\ \A d \in DeviceIds :
           historyStore'[d] # historyStore[d] =>
               \E w \in pending \ pending' :
                   /\ w.coll = HISTORY_COLLECTION
                   /\ w.doc = d
                   /\ historyStore'[d] = Append(historyStore[d], w.data)

\* C29: after N readings received one after another for a device, its
\* history holds N entries, each the reading received plus the server
\* timestamp of its reception, entries once stored are never changed or
\* removed, and the status document is the last reading plus its timestamp
\* and nothing else.
C29_HistoryAndStatus == []HistoryComplete /\ [][HistoryAppendOnly]_vars

\* Three readings were received: the first with pH and battery voltage, the
\* last with the temperature alone; the status document has lost the pH
C29_Witness ==
    /\ Quiescent
    /\ ingested = 3
    /\ Len(historyStore["d1"]) = 3
    /\ historyStore["d1"][1] = [pH |-> 11, battery_voltage |-> 39, timestamp |-> 1]
    /\ historyStore["d1"][3] = [temperature |-> 25, timestamp |-> 3]
    /\ statusStore["d1"] = Document([temperature |-> 25, timestamp |-> 3])

====
